---------------------------- MODULE Spec2Model ----------------------------
(***************************************************************************)
(* A model of horovod.ray: the rank Coordinator, the RayExecutor           *)
(* constructor, the placement strategies and the start / shutdown          *)
(* sequence, written from src/horovod/ray/runner.py and                    *)
(* src/horovod/ray/strategy.py.                                            *)
(***************************************************************************)
EXTENDS Integers, Sequences, FiniteSets, TLC

(***************************************************************************)
(* Bounds of the model.                                                    *)
(***************************************************************************)
\* number of distinct world ranks that callers may register
MaxRanks == 5
\* finalize_registration calls observed between two register calls
MaxFinalize == 2


\* host identities workers may report
Hosts == {"A", "B", "C"}

VARIABLES
    \* ---- Coordinator (runner.py 41-118)
    hostnames_by_rank,  \* ordered dict host -> list of world ranks, as a
                        \* sequence of [host, ranks] in insertion order
    rank_to_info,       \* mapping returned by the latest finalize_registration
    finalize_calls,     \* finalize_registration calls since the last register
    rendezvous,         \* self.rendezvous: None, or the server with the
                        \* number of processes it was initialised for
    \* ---- RayExecutor.__init__ (runner.py 174-236)
    args,               \* the arguments of the constructor call
    ctor,               \* "new", "ok" or the exception __init__ raised
    executor,           \* the configuration fields __init__ stored
    strategy,           \* self.strategy: None or the strategy object
    workers,            \* self.workers: the list of worker handles
    \* ---- the driver thread
    pc,                 \* where the driver is: "idle" or a step of start
    error,              \* the exception the last start call raised, or None
    last_call,          \* the RayExecutor method that returned or raised last
    start_budget,       \* start calls the caller still makes
    pg_local,           \* create_placement_group's pg, a key of groups
    bundle_index,       \* the loop variable of create_workers
    node_workers,       \* the second result of create_workers
    result,             \* what the last execute call returned, or None
    wait_timer,         \* the timeout of ray.wait: off, running or expired
    \* ---- the cluster
    sched,              \* what the scheduler may do in this run
    groups,             \* the scheduler's placement groups, by creation
    actors              \* the worker actors, by creation

coordVars == <<hostnames_by_rank, rank_to_info, finalize_calls, rendezvous>>

ctorVars == <<args, ctor, executor>>

driverVars == <<pc, error, last_call, start_budget, pg_local, bundle_index,
                node_workers, result, wait_timer>>

clusterVars == <<sched, groups, actors>>

vars == <<hostnames_by_rank, rank_to_info, finalize_calls, rendezvous,
          args, ctor, executor, strategy, workers,
          pc, error, last_call, start_budget, pg_local, bundle_index,
          node_workers, result, wait_timer, sched, groups, actors>>

(***************************************************************************)
(* Python values.  An Optional[int] is None or Some(n); a value is truthy  *)
(* when it is neither None nor 0.                                          *)
(***************************************************************************)
None == <<>>

Some(n) == <<n>>

Val(x) == x[1]

Truthy(x) == x # None /\ Val(x) # 0

(***************************************************************************)
(* Python dictionaries as functions with a finite domain.                  *)
(***************************************************************************)
EmptyDict == [x \in {} |-> 0]

\* d[k] = v
DictSet(d, k, v) == [x \in (DOMAIN d) \cup {k} |-> IF x = k THEN v ELSE d[x]]

\* d[k] on a defaultdict(int)
DefaultGet(d, k) == IF k \in DOMAIN d THEN d[k] ELSE 0

(***************************************************************************)
(* Coordinator                                                             *)
(***************************************************************************)
\* index of host h in the ordered dict, 0 when h is not a key
HostIndex(hbr, h) ==
    IF \E i \in 1..Len(hbr) : hbr[i].host = h
    THEN CHOOSE i \in 1..Len(hbr) : hbr[i].host = h
    ELSE 0

\* a register that puts the rank at the front of the host's list
register_front(hbr, hostname, world_rank) ==
    LET i == HostIndex(hbr, hostname) IN
    IF i = 0
    THEN Append(hbr, [host |-> hostname, ranks |-> <<world_rank>>])
    ELSE [hbr EXCEPT ![i].ranks = <<world_rank>> \o @]

\* self.hostnames_by_rank[hostname].append(world_rank)
register(hbr, hostname, world_rank) ==
    LET i == HostIndex(hbr, hostname) IN
    IF i = 0
    THEN Append(hbr, [host |-> hostname, ranks |-> <<world_rank>>])
    ELSE [hbr EXCEPT ![i].ranks = Append(@, world_rank)]

\* the world ranks registered so far
RegisteredRanks(hbr) ==
    UNION {{hbr[i].ranks[p] : p \in 1..Len(hbr[i].ranks)} : i \in 1..Len(hbr)}

\* sum(len(ranks) for ranks in self.hostnames_by_rank.values())
RECURSIVE SumLens(_, _)
SumLens(hbr, i) ==
    IF i > Len(hbr) THEN 0 ELSE Len(hbr[i].ranks) + SumLens(hbr, i + 1)

world_size(hbr) == SumLens(hbr, 1)

\* the hoststring property: "host:len(ranks)" per host, in insertion order
hoststring(hbr) ==
    [i \in 1..Len(hbr) |-> [host |-> hbr[i].host, slots |-> Len(hbr[i].ranks)]]

\* a rendezvous initialised for one process per host
establish_rendezvous_per_host(hbr) ==
    Some([hosts |-> hoststring(hbr), num_proc |-> Len(hbr)])

\* establish_rendezvous: self.rendezvous, a server initialised with the
\* assignment of world_size processes to the hosts of the hoststring
establish_rendezvous(hbr) ==
    Some([hosts |-> hoststring(hbr), num_proc |-> world_size(hbr)])

\* a first loop that takes the host's ordinal as the cross rank
RECURSIVE CrossPassByHost(_, _, _, _)
CrossPassByHost(hbr, i, p, acc) ==
    IF i > Len(hbr) THEN acc
    ELSE IF p > Len(hbr[i].ranks) THEN CrossPassByHost(hbr, i + 1, 1, acc)
    ELSE LET local_rank == p - 1
             world_rank == hbr[i].ranks[p]
             seen == DefaultGet(acc.cross_sizes, local_rank)
         IN CrossPassByHost(hbr, i, p + 1,
                [cross_ranks |-> DictSet(acc.cross_ranks, world_rank, i - 1),
                 cross_sizes |-> DictSet(acc.cross_sizes, local_rank, seen + 1)])

\* First loop of finalize_registration: over the hosts in insertion order and
\* each host's ranks in list order (i: host index, p: position, both from 1),
\*     cross_ranks[world_rank] = cross_sizes[local_rank]
\*     cross_sizes[local_rank] += 1
RECURSIVE CrossPass(_, _, _, _)
CrossPass(hbr, i, p, acc) ==
    IF i > Len(hbr) THEN acc
    ELSE IF p > Len(hbr[i].ranks) THEN CrossPass(hbr, i + 1, 1, acc)
    ELSE LET local_rank == p - 1
             world_rank == hbr[i].ranks[p]
             seen == DefaultGet(acc.cross_sizes, local_rank)
         IN CrossPass(hbr, i, p + 1,
                [cross_ranks |-> DictSet(acc.cross_ranks, world_rank, seen),
                 cross_sizes |-> DictSet(acc.cross_sizes, local_rank, seen + 1)])

\* a record whose CROSS_SIZE is the count at the time the rank was walked
RankInfoSnapshot(hbr, i, p, cross) ==
    [HOROVOD_CROSS_RANK |-> cross.cross_ranks[hbr[i].ranks[p]],
     HOROVOD_CROSS_SIZE |-> cross.cross_ranks[hbr[i].ranks[p]] + 1,
     HOROVOD_LOCAL_RANK |-> p - 1,
     HOROVOD_LOCAL_SIZE |-> Len(hbr[i].ranks)]

\* a record whose LOCAL_RANK counts from 1
RankInfoOneBased(hbr, i, p, cross) ==
    [HOROVOD_CROSS_RANK |-> cross.cross_ranks[hbr[i].ranks[p]],
     HOROVOD_CROSS_SIZE |-> DefaultGet(cross.cross_sizes, p - 1),
     HOROVOD_LOCAL_RANK |-> p,
     HOROVOD_LOCAL_SIZE |-> Len(hbr[i].ranks)]

\* the record built for one world rank in the second loop
RankInfo(hbr, i, p, cross) ==
    [HOROVOD_CROSS_RANK |-> cross.cross_ranks[hbr[i].ranks[p]],
     HOROVOD_CROSS_SIZE |-> DefaultGet(cross.cross_sizes, p - 1),
     HOROVOD_LOCAL_RANK |-> p - 1,
     HOROVOD_LOCAL_SIZE |-> Len(hbr[i].ranks)]

\* Second loop of finalize_registration: rank_to_info[world_rank] = dict(...)
RECURSIVE InfoPass(_, _, _, _, _)
InfoPass(hbr, i, p, cross, info) ==
    IF i > Len(hbr) THEN info
    ELSE IF p > Len(hbr[i].ranks) THEN InfoPass(hbr, i + 1, 1, cross, info)
    ELSE InfoPass(hbr, i, p + 1, cross,
                  DictSet(info, hbr[i].ranks[p], RankInfo(hbr, i, p, cross)))

\* a finalize_registration that drains the rank lists while it walks them
finalize_registration_draining(hbr) ==
    LET cross == CrossPass(hbr, 1, 1,
                           [cross_ranks |-> EmptyDict, cross_sizes |-> EmptyDict])
    IN [ret  |-> InfoPass(hbr, 1, 1, cross, EmptyDict),
        self |-> [i \in 1..Len(hbr) |-> [hbr[i] EXCEPT !.ranks = <<>>]]]

\* finalize_registration: the mapping it returns (ret) and the
\* hostnames_by_rank it leaves behind (self)
finalize_registration(hbr) ==
    LET cross == CrossPass(hbr, 1, 1,
                           [cross_ranks |-> EmptyDict, cross_sizes |-> EmptyDict])
    IN [ret  |-> InfoPass(hbr, 1, 1, cross, EmptyDict),
        self |-> hbr]

\* Coordinator.__init__
NewCoordinator ==
    /\ hostnames_by_rank = <<>>
    /\ rank_to_info = EmptyDict
    /\ finalize_calls = 0
    /\ rendezvous = None

\* no RayExecutor is being constructed
NoExecutor ==
    /\ args = None
    /\ ctor = "new"
    /\ executor = None
    /\ strategy = None
    /\ workers = <<>>

\* the driver is between calls, and its caller calls start once
IdleDriver ==
    /\ pc = "idle"
    /\ error = None
    /\ last_call = "none"
    /\ start_budget = 1
    /\ pg_local = 0
    /\ bundle_index = 0
    /\ node_workers = <<>>
    /\ result = None
    /\ wait_timer = "off"

\* a cluster with nothing requested from it
IdleCluster(s) ==
    /\ sched = s
    /\ groups = <<>>
    /\ actors = <<>>

\* no cluster is modelled
NoScheduler ==
    [capacity |-> [CPU |-> 0, GPU |-> 0], hosts |-> {}, isolates |-> TRUE,
     faulty |-> FALSE]

InitCoordinator ==
    /\ NewCoordinator
    /\ NoExecutor
    /\ IdleDriver
    /\ IdleCluster(NoScheduler)

\* coordinator.register(hostname, world_rank), once per worker; the mapping
\* returned by an earlier finalize_registration is dropped by its caller
Register ==
    \E h \in Hosts, r \in 0..(MaxRanks - 1) :
        /\ r \notin RegisteredRanks(hostnames_by_rank)
        /\ hostnames_by_rank' = register(hostnames_by_rank, h, r)
        /\ rank_to_info' = EmptyDict
        /\ finalize_calls' = 0
        /\ UNCHANGED <<rendezvous, ctorVars, strategy, workers, driverVars,
                       clusterVars>>

\* all_info = coordinator.finalize_registration()
FinalizeRegistration ==
    /\ finalize_calls < MaxFinalize
    /\ LET r == finalize_registration(hostnames_by_rank) IN
        /\ rank_to_info' = r.ret
        /\ hostnames_by_rank' = r.self
    /\ finalize_calls' = finalize_calls + 1
    /\ UNCHANGED <<rendezvous, ctorVars, strategy, workers, driverVars,
                   clusterVars>>

NextCoordinator == Register \/ FinalizeRegistration

SpecCoordinator == InitCoordinator /\ [][NextCoordinator]_vars

(***************************************************************************)
(* Properties of the Coordinator                                           *)
(***************************************************************************)
\* the mapping in rank_to_info was returned for the current registrations
Finalized == finalize_calls >= 1

\* sum of LOCAL_SIZE taken over the first-registered worker of every host
RECURSIVE SumLocalSize(_, _, _)
SumLocalSize(hbr, info, i) ==
    IF i > Len(hbr) THEN 0
    ELSE info[hbr[i].ranks[1]].HOROVOD_LOCAL_SIZE + SumLocalSize(hbr, info, i + 1)

\* C1: after any sequence of register calls, finalize_registration returns
\* LOCAL_SIZE values that sum, over one worker per host, to world_size, and
\* on every host the world ranks get LOCAL_RANK 0..LOCAL_SIZE-1 in the order
\* they were registered, LOCAL_SIZE being the length of the host's list.
C1_LocalRanks ==
    Finalized =>
        /\ DOMAIN rank_to_info = RegisteredRanks(hostnames_by_rank)
        /\ SumLocalSize(hostnames_by_rank, rank_to_info, 1)
               = world_size(hostnames_by_rank)
        /\ \A i \in 1..Len(hostnames_by_rank) :
             \A p \in 1..Len(hostnames_by_rank[i].ranks) :
                LET info == rank_to_info[hostnames_by_rank[i].ranks[p]] IN
                /\ info.HOROVOD_LOCAL_RANK = p - 1
                /\ info.HOROVOD_LOCAL_SIZE = Len(hostnames_by_rank[i].ranks)

\* two hosts with lists of different lengths have been finalized
C1_Witness ==
    /\ Finalized
    /\ Len(hostnames_by_rank) = 2
    /\ Len(hostnames_by_rank[1].ranks) = 1
    /\ Len(hostnames_by_rank[2].ranks) = 3

\* indices of the hosts whose rank list has a position L (from 0)
HostsAt(hbr, L) == {i \in 1..Len(hbr) : Len(hbr[i].ranks) > L}

\* C2: for every position L, the hosts that have a worker at L get
\* CROSS_RANK 0, 1, 2, ... in first-registration order, and every worker at
\* position L gets the same CROSS_SIZE, the number of hosts whose list is
\* longer than L once all hosts have been walked.
C2_CrossRanks ==
    Finalized =>
        \A L \in 0..world_size(hostnames_by_rank) :
            \A i \in HostsAt(hostnames_by_rank, L) :
                LET info == rank_to_info[hostnames_by_rank[i].ranks[L + 1]] IN
                /\ info.HOROVOD_CROSS_RANK
                       = Cardinality({j \in HostsAt(hostnames_by_rank, L) : j < i})
                /\ info.HOROVOD_CROSS_SIZE
                       = Cardinality(HostsAt(hostnames_by_rank, L))

\* three hosts, the middle one shorter: position 1 skips a host
C2_Witness ==
    /\ Finalized
    /\ Len(hostnames_by_rank) = 3
    /\ Len(hostnames_by_rank[1].ranks) = 2
    /\ Len(hostnames_by_rank[2].ranks) = 1
    /\ Len(hostnames_by_rank[3].ranks) = 2
    /\ rank_to_info[hostnames_by_rank[3].ranks[2]].HOROVOD_CROSS_RANK = 1
    /\ rank_to_info[hostnames_by_rank[3].ranks[1]].HOROVOD_CROSS_RANK = 2

\* host A registered with world ranks 0,1,2 and then host B with 3,4
ExampleRegistered ==
    hostnames_by_rank = << [host |-> "A", ranks |-> <<0, 1, 2>>],
                           [host |-> "B", ranks |-> <<3, 4>>] >>

\* C3 as stated: for A:[0,1,2], B:[3,4] finalize_registration returns
\* 0 -> (local 0 of 3, cross 0 of 2), 1 -> (local 1 of 3, cross 0 of 1),
\* 3 -> (local 0 of 2, cross 1 of 2), 4 -> (local 1 of 2), and CROSS_SIZE 1
\* for world rank 2.
C3_ExampleAsStated ==
    (ExampleRegistered /\ Finalized) =>
        /\ rank_to_info[0] = [HOROVOD_LOCAL_RANK |-> 0, HOROVOD_LOCAL_SIZE |-> 3,
                              HOROVOD_CROSS_RANK |-> 0, HOROVOD_CROSS_SIZE |-> 2]
        /\ rank_to_info[1] = [HOROVOD_LOCAL_RANK |-> 1, HOROVOD_LOCAL_SIZE |-> 3,
                              HOROVOD_CROSS_RANK |-> 0, HOROVOD_CROSS_SIZE |-> 1]
        /\ rank_to_info[3] = [HOROVOD_LOCAL_RANK |-> 0, HOROVOD_LOCAL_SIZE |-> 2,
                              HOROVOD_CROSS_RANK |-> 1, HOROVOD_CROSS_SIZE |-> 2]
        /\ rank_to_info[4].HOROVOD_LOCAL_RANK = 1
        /\ rank_to_info[4].HOROVOD_LOCAL_SIZE = 2
        /\ rank_to_info[2].HOROVOD_CROSS_SIZE = 1

\* C3 (amended): as above, but world rank 1 gets CROSS_SIZE 2, since both A
\* and B have a worker at local rank 1.
C3_Example ==
    (ExampleRegistered /\ Finalized) =>
        /\ rank_to_info[0] = [HOROVOD_LOCAL_RANK |-> 0, HOROVOD_LOCAL_SIZE |-> 3,
                              HOROVOD_CROSS_RANK |-> 0, HOROVOD_CROSS_SIZE |-> 2]
        /\ rank_to_info[1] = [HOROVOD_LOCAL_RANK |-> 1, HOROVOD_LOCAL_SIZE |-> 3,
                              HOROVOD_CROSS_RANK |-> 0, HOROVOD_CROSS_SIZE |-> 2]
        /\ rank_to_info[3] = [HOROVOD_LOCAL_RANK |-> 0, HOROVOD_LOCAL_SIZE |-> 2,
                              HOROVOD_CROSS_RANK |-> 1, HOROVOD_CROSS_SIZE |-> 2]
        /\ rank_to_info[4].HOROVOD_LOCAL_RANK = 1
        /\ rank_to_info[4].HOROVOD_LOCAL_SIZE = 2
        /\ rank_to_info[2].HOROVOD_CROSS_SIZE = 1

C3_Witness == ExampleRegistered /\ Finalized

\* C4: a finalize_registration call leaves hostnames_by_rank as it was, and a
\* call that follows another with no register in between returns the same
\* mapping.
C4_FinalizeIdempotent ==
    [][(finalize_calls' = finalize_calls + 1) =>
          /\ hostnames_by_rank' = hostnames_by_rank
          /\ (finalize_calls >= 1 => rank_to_info' = rank_to_info)]_vars

\* finalize_registration has been called twice in a row on two hosts
C4_Witness ==
    /\ finalize_calls = 2
    /\ Len(hostnames_by_rank) = 2
    /\ Len(hostnames_by_rank[1].ranks) = 2
    /\ DOMAIN rank_to_info = RegisteredRanks(hostnames_by_rank)

(***************************************************************************)
(* RayExecutor.__init__ and _create_strategy                               *)
(***************************************************************************)
\* bound on the worker, host and slot counts passed to the constructor
MaxCount == 2

\* Optional[int] arguments: None, 0 and the positive counts
OptCounts == {None} \cup {Some(n) : n \in 0..MaxCount}

\* gpus_per_worker may also be negative
OptGpus == OptCounts \cup {Some(-1)}

\* the constructor calls of the model; num_workers_per_host and
\* cpus_per_worker keep their default, 1
CtorArgs ==
    [num_workers : OptCounts, num_hosts : OptCounts,
     num_workers_per_host : {Some(1)}, cpus_per_worker : {Some(1)},
     use_gpu : BOOLEAN, gpus_per_worker : OptGpus,
     num_slots : {None, Some(2)}, cpus_per_slot : {None, Some(0), Some(2)},
     gpus_per_slot : {None, Some(0), Some(1)}]

\* num_workers_per_host after `if num_slots:`
EffWorkersPerHost(a) ==
    IF Truthy(a.num_slots) THEN a.num_slots ELSE a.num_workers_per_host

\* `if cpus_per_slot or gpus_per_slot:`
SlotArgsGiven(a) == Truthy(a.cpus_per_slot) \/ Truthy(a.gpus_per_slot)

\* cpus_per_worker and gpus_per_worker after the deprecated arguments
EffCpus(a) == IF SlotArgsGiven(a) THEN a.cpus_per_slot ELSE a.cpus_per_worker

EffGpus(a) == IF SlotArgsGiven(a) THEN a.gpus_per_slot ELSE a.gpus_per_worker

\* `if num_workers and num_hosts:`
BothCounts(a) == Truthy(a.num_workers) /\ Truthy(a.num_hosts)

\* `if gpus_per_worker and not use_gpu:`
GpusWithoutFlag(a) == Truthy(EffGpus(a)) /\ ~a.use_gpu

\* `if use_gpu and isinstance(gpus_per_worker, int) and gpus_per_worker < 1:`
GpusBelowOne(a) == a.use_gpu /\ EffGpus(a) # None /\ Val(EffGpus(a)) < 1

\* the exception __init__ raises for arguments a, None when it returns
InitError(a) ==
    IF a.num_workers = None /\ a.num_hosts = None THEN Some("ValueError")
    ELSE IF BothCounts(a) THEN Some("ValueError")
    ELSE IF GpusWithoutFlag(a) THEN Some("ValueError")
    ELSE IF GpusBelowOne(a) THEN Some("ValueError")
    ELSE None

\* the fields __init__ stores
InitFields(a) ==
    [num_workers          |-> a.num_workers,
     num_hosts            |-> a.num_hosts,
     num_workers_per_host |-> EffWorkersPerHost(a),
     cpus_per_worker      |-> EffCpus(a),
     use_gpu              |-> a.use_gpu,
     gpus_per_worker      |-> IF Truthy(EffGpus(a)) THEN EffGpus(a) ELSE Some(1)]

\* _create_strategy: the strategy object, or the failed assert
create_strategy(e) ==
    IF ~(e.num_workers = None \/ e.num_hosts = None)
    THEN [error |-> Some("AssertionError"), strategy |-> None]
    ELSE IF Truthy(e.num_workers)
    THEN [error |-> None,
          strategy |-> Some([kind |-> "PackStrategy",
                             num_workers |-> e.num_workers,
                             num_hosts |-> None,
                             num_workers_per_host |-> None,
                             use_gpu |-> e.use_gpu,
                             cpus_per_worker |-> e.cpus_per_worker,
                             gpus_per_worker |->
                                 IF Truthy(e.gpus_per_worker)
                                 THEN e.gpus_per_worker ELSE Some(1),
                             placement_group |-> None,
                             workers |-> None])]
    ELSE [error |-> None,
          strategy |-> Some([kind |-> "ColocatedStrategy",
                             num_workers |-> None,
                             num_hosts |-> e.num_hosts,
                             num_workers_per_host |-> e.num_workers_per_host,
                             use_gpu |-> e.use_gpu,
                             cpus_per_worker |-> e.cpus_per_worker,
                             gpus_per_worker |->
                                 IF Truthy(e.gpus_per_worker)
                                 THEN e.gpus_per_worker ELSE Some(1),
                             placement_group |-> None,
                             workers |-> None])]

\* an exception with no payload
Raised(type) == [type |-> type, available |-> None, requested |-> None]

\* a constructor call with any of the arguments is about to run
InitConstructor ==
    /\ NewCoordinator
    /\ args \in {Some(a) : a \in CtorArgs}
    /\ ctor = "new"
    /\ executor = None
    /\ strategy = None
    /\ workers = <<>>
    /\ IdleDriver
    /\ IdleCluster(NoScheduler)

\* RayExecutor(settings, ...): raises, or stores the fields with
\* self.workers = [] and self.strategy = None
Construct ==
    /\ ctor = "new"
    /\ args # None
    /\ LET err == InitError(Val(args)) IN
        IF err # None
        THEN /\ ctor' = Val(err)
             /\ UNCHANGED <<executor, strategy, workers>>
        ELSE /\ ctor' = "ok"
             /\ executor' = Some(InitFields(Val(args)))
             /\ strategy' = None
             /\ workers' = <<>>
    /\ last_call' = "init"
    /\ UNCHANGED <<coordVars, args, pc, error, start_budget, pg_local,
                   bundle_index, node_workers, result, wait_timer, clusterVars>>

\* start, lines 288-292: self.strategy = self._create_strategy() and
\* self.coordinator = Coordinator(self.settings)
StartCreateStrategy ==
    /\ ctor = "ok"
    /\ pc = "idle"
    /\ start_budget > 0
    /\ start_budget' = start_budget - 1
    /\ LET r == create_strategy(Val(executor)) IN
        IF r.error # None
        THEN /\ error' = Some(Raised(Val(r.error)))
             /\ last_call' = "start"
             /\ UNCHANGED <<strategy, coordVars, pc>>
        ELSE /\ strategy' = r.strategy
             /\ hostnames_by_rank' = <<>>
             /\ rank_to_info' = EmptyDict
             /\ finalize_calls' = 0
             /\ rendezvous' = None
             /\ error' = None
             /\ pc' = "create_workers"
             /\ UNCHANGED last_call
    /\ UNCHANGED <<ctorVars, workers, pg_local, bundle_index, node_workers, result,
                   wait_timer, clusterVars>>

NextConstructor == Construct \/ StartCreateStrategy

SpecConstructor == InitConstructor /\ [][NextConstructor]_vars

(***************************************************************************)
(* Properties of the constructor                                           *)
(***************************************************************************)
\* the constructor call has returned or raised
Constructed == ctor # "new"

\* C5: the constructor raises a configuration error, with no strategy
\* created, when neither or both of num_workers and num_hosts are supplied
\* (whatever integers are supplied, 0 included), and returns only when
\* exactly one of them is supplied.
C5_ExactlyOneCount ==
    Constructed =>
        LET a == Val(args)
            supplied == Cardinality({k \in {"num_workers", "num_hosts"} :
                                        a[k] # None})
        IN /\ (supplied # 1 => ctor = "ValueError" /\ strategy = None)
           /\ (ctor = "ok" => supplied = 1)

\* C6: the constructor raises a configuration error when a per-worker GPU
\* count is set (after the deprecated per-slot arguments have been applied)
\* while use_gpu is off, and when use_gpu is on and that count is an
\* integer below 1.
C6_GpuCount ==
    Constructed =>
        LET a == Val(args) IN
        /\ (EffGpus(a) # None /\ ~a.use_gpu => ctor = "ValueError")
        /\ (a.use_gpu /\ EffGpus(a) # None /\ Val(EffGpus(a)) < 1
                => ctor = "ValueError")

(***************************************************************************)
(* Bundle acquisition: create_placement_group and the scheduler            *)
(***************************************************************************)
\* bound on the number of workers of one start call
MaxWorkers == 4

\* MiniSettings.placement_group_timeout_s
placement_group_timeout_s == 100

\* the timeout handed to ray.wait: pg_timeout, from the settings
WaitTimeoutNone(settings_timeout) == None

WaitTimeout(settings_timeout) == Some(settings_timeout)

\* int(use_gpu)
BoolInt(b) == IF b THEN 1 ELSE 0

\* the strategy's num_workers property
NumWorkers(st) ==
    IF st.kind = "PackStrategy" THEN Val(st.num_workers)
    ELSE Val(st.num_hosts) * Val(st.num_workers_per_host)

\* workers spawned on each bundle
WorkersPerBundle(st) ==
    IF st.kind = "PackStrategy" THEN 1 ELSE Val(st.num_workers_per_host)

\* ColocatedStrategy._resources_per_host / PackStrategy.resources_per_worker
ResourcesPerBundle(st) ==
    IF st.kind = "PackStrategy"
    THEN [CPU |-> Val(st.cpus_per_worker),
          GPU |-> Val(st.gpus_per_worker) * BoolInt(st.use_gpu)]
    ELSE [CPU |-> Val(st.cpus_per_worker) * Val(st.num_workers_per_host),
          GPU |-> Val(st.gpus_per_worker) * Val(st.num_workers_per_host)
                      * BoolInt(st.use_gpu)]

\* num_bundles
NumBundles(st) ==
    IF st.kind = "PackStrategy" THEN Val(st.num_workers) ELSE Val(st.num_hosts)

\* bundles = [resources_per_bundle.copy() for _ in range(num_bundles)]
Bundles(st) == [b \in 1..NumBundles(st) |-> ResourcesPerBundle(st)]

RECURSIVE SumField(_, _, _)
SumField(bundles, f, i) ==
    IF i > Len(bundles) THEN 0 ELSE bundles[i][f] + SumField(bundles, f, i + 1)

\* what a group holds while it is reserved
Reserved(g) ==
    IF g.state = "ready"
    THEN [CPU |-> SumField(g.bundles, "CPU", 1),
          GPU |-> SumField(g.bundles, "GPU", 1)]
    ELSE [CPU |-> 0, GPU |-> 0]

RECURSIVE SumReserved(_, _, _)
SumReserved(gs, f, i) ==
    IF i > Len(gs) THEN 0 ELSE Reserved(gs[i])[f] + SumReserved(gs, f, i + 1)

\* ray.available_resources(): the capacity not reserved by a ready group
AvailableResources(capacity, gs) ==
    [CPU |-> capacity.CPU - SumReserved(gs, "CPU", 1),
     GPU |-> capacity.GPU - SumReserved(gs, "GPU", 1)]

\* the scheduler can place every bundle of group g now
Fits(capacity, gs, g) ==
    LET free == AvailableResources(capacity, gs) IN
    /\ SumField(g.bundles, "CPU", 1) <= free.CPU
    /\ SumField(g.bundles, "GPU", 1) <= free.GPU

\* the TimeoutError of create_placement_group: its message carries
\* ray.available_resources() and pg.bundle_specs
TimeoutError(available, bundle_specs) ==
    [type |-> "TimeoutError", available |-> Some(available),
     requested |-> Some(bundle_specs)]

\* create_placement_group up to ray.wait: the group is handed to the
\* scheduler and the driver starts to wait for pg.ready()
RequestPlacementGroup ==
    /\ pc = "create_workers"
    /\ groups' = Append(groups, [state |-> "pending",
                                 bundles |-> Bundles(Val(strategy)),
                                 hosts |-> <<>>, removals |-> 0,
                                 acquired |-> FALSE])
    /\ pg_local' = Len(groups) + 1
    /\ wait_timer' = "running"
    /\ pc' = "pg_wait"
    /\ UNCHANGED <<coordVars, ctorVars, strategy, workers, error, last_call,
                   start_budget, bundle_index, node_workers, result, sched, actors>>

\* the scheduler reserves all bundles of a pending group at once, each on a
\* node whose host identity is one of sched.hosts
SchedulerPlace ==
    \E id \in 1..Len(groups) :
        /\ groups[id].state = "pending"
        /\ Fits(sched.capacity, groups, groups[id])
        /\ \E hs \in [1..Len(groups[id].bundles) -> sched.hosts] :
             groups' = [groups EXCEPT ![id].state = "ready", ![id].hosts = hs]
        /\ UNCHANGED <<coordVars, ctorVars, strategy, workers, driverVars,
                       sched, actors>>

\* the timeout of ray.wait elapses
TimerExpires ==
    /\ wait_timer = "running"
    /\ WaitTimeout(placement_group_timeout_s) # None
    /\ wait_timer' = "expired"
    /\ UNCHANGED <<coordVars, ctorVars, strategy, workers, pc, error,
                   last_call, start_budget, pg_local, bundle_index,
                   node_workers, result, clusterVars>>

\* ray.wait returns: with the group ready create_placement_group returns it
\* and create_workers stores it and sets self.workers = []; otherwise the
\* TimeoutError leaves create_workers and start
PgWaitReturns ==
    /\ pc = "pg_wait"
    /\ groups[pg_local].state = "ready" \/ wait_timer = "expired"
    /\ wait_timer' = "off"
    /\ IF groups[pg_local].state = "ready"
       THEN /\ strategy' = Some([Val(strategy) EXCEPT
                                    !.placement_group = Some(pg_local),
                                    !.workers = Some(<<>>)])
            /\ groups' = [groups EXCEPT ![pg_local].acquired = TRUE]
            /\ bundle_index' = 0
            /\ pc' = "spawn"
            /\ UNCHANGED <<error, last_call>>
       ELSE /\ error' = Some(TimeoutError(
                                AvailableResources(sched.capacity, groups),
                                groups[pg_local].bundles))
            /\ last_call' = "start"
            /\ pc' = "idle"
            /\ UNCHANGED <<strategy, bundle_index, groups>>
    /\ UNCHANGED <<coordVars, ctorVars, workers, start_budget, pg_local,
                   node_workers, result, sched, actors>>

\* a constructor call of start's scenarios: Pack with n workers, or Spread
\* with h hosts of w workers, at most MaxWorkers workers in all
StartArgs ==
    { a \in [num_workers : {None} \cup {Some(n) : n \in 1..MaxWorkers},
             num_hosts : {None} \cup {Some(n) : n \in 1..MaxWorkers},
             num_workers_per_host : {Some(n) : n \in 1..MaxWorkers},
             cpus_per_worker : {Some(1)},
             use_gpu : BOOLEAN, gpus_per_worker : {None},
             num_slots : {None}, cpus_per_slot : {None},
             gpus_per_slot : {None}] :
        /\ (a.num_workers = None) # (a.num_hosts = None)
        /\ a.num_workers # None => a.num_workers_per_host = Some(1)
        /\ a.num_hosts # None =>
              Val(a.num_hosts) * Val(a.num_workers_per_host) <= MaxWorkers }

\* a cluster that holds any one group of the model, and one that holds none
LargeCluster == [CPU |-> MaxWorkers, GPU |-> 2 * MaxWorkers]

EmptyCluster == [CPU |-> 0, GPU |-> 0]

InitAcquire ==
    /\ NewCoordinator
    /\ args \in {Some(a) : a \in StartArgs}
    /\ ctor = "new"
    /\ executor = None
    /\ strategy = None
    /\ workers = <<>>
    /\ IdleDriver
    /\ \E c \in {LargeCluster, EmptyCluster} :
          IdleCluster([capacity |-> c, hosts |-> {"A", "B"}, isolates |-> TRUE,
                       faulty |-> FALSE])

NextAcquire ==
    \/ Construct
    \/ StartCreateStrategy
    \/ RequestPlacementGroup
    \/ SchedulerPlace
    \/ TimerExpires
    \/ PgWaitReturns

\* the driver runs on, and the timeout of ray.wait elapses
SpecAcquire ==
    /\ InitAcquire
    /\ [][NextAcquire]_vars
    /\ WF_vars(Construct)
    /\ WF_vars(StartCreateStrategy)
    /\ WF_vars(RequestPlacementGroup)
    /\ WF_vars(TimerExpires)
    /\ WF_vars(PgWaitReturns)

(***************************************************************************)
(* Properties of bundle acquisition                                        *)
(***************************************************************************)
\* create_workers holds a group that create_placement_group returned
Acquired == strategy # None /\ Val(strategy).placement_group # None

\* start has raised the TimeoutError of create_placement_group
TimedOut == error # None /\ Val(error).type = "TimeoutError"

\* C7: create_placement_group returns the group only when the scheduler
\* reported it ready, its wait always ends, and on a cluster that never
\* satisfies the request it ends in a TimeoutError that carries the
\* requested bundles and the resources available when it is raised.
C7_AcquireOrTimeout ==
    /\ [](Acquired => groups[Val(Val(strategy).placement_group)].state = "ready")
    /\ [][(pc = "pg_wait" /\ pc' = "idle") =>
            /\ error' = Some([type |-> "TimeoutError",
                              available |-> Some(AvailableResources(
                                                  sched.capacity, groups)),
                              requested |-> Some(Bundles(Val(strategy)))])
            /\ groups[pg_local].state # "ready"]_vars
    /\ ((pc = "pg_wait") ~> (Acquired \/ TimedOut))
    /\ ((pc = "pg_wait" /\ sched.capacity = EmptyCluster) ~> TimedOut)

\* the wait has ended in a TimeoutError on a cluster too small for the group
C7_Witness ==
    /\ TimedOut
    /\ sched.capacity = EmptyCluster
    /\ Len(groups) = 1
    /\ Len(groups[1].bundles) = 2
    /\ Val(error).requested = Some(<<[CPU |-> 2, GPU |-> 2], [CPU |-> 2, GPU |-> 2]>>)
    /\ Val(error).available = Some([CPU |-> 0, GPU |-> 0])

(***************************************************************************)
(* Workers: create_workers of both strategies, and the worker actors       *)
(***************************************************************************)
\* device id lists a scheduler that does not isolate devices may hand out
GpuIdLists == {<<>>, <<0>>, <<1>>, <<0, 1>>}

\* the ids m .. m + n - 1
IdRange(m, n) == [k \in 1..n |-> m + k - 1]

\* what worker.get_gpu_ids may return for the i-th worker (from 0) of a
\* bundle: with use_gpu off nothing; from an isolating scheduler the
\* worker's own gpus_per_worker devices; otherwise any list
GpuIdChoices(st, i) ==
    IF ~st.use_gpu THEN {<<>>}
    ELSE IF sched.isolates
    THEN {IdRange(i * Val(st.gpus_per_worker), Val(st.gpus_per_worker))}
    ELSE GpuIdLists

\* a world_rank that counts the workers of a bundle from 1
SpawnRankOffByOne(st, b, i) ==
    IF st.kind = "PackStrategy" THEN b + 1
    ELSE Val(st.num_workers_per_host) * b + i + 1

\* world_rank of the i-th worker (from 0) spawned on bundle b (from 0)
SpawnRank(st, b, i) ==
    IF st.kind = "PackStrategy" THEN b
    ELSE Val(st.num_workers_per_host) * b + i

\* the elements of a sequence
Range(seq) == {seq[k] : k \in 1..Len(seq)}

\* a remote call waiting in an actor's queue
Call(op, env, val) == [op |-> op, env |-> env, val |-> val]

\* a worker actor just created on bundle b of group pg
NewActor(pg, b, rank, host, ids, calls) ==
    [pg |-> pg, bundle |-> b, world_rank |-> rank, host |-> host,
     gpu_ids |-> ids, queue |-> calls, cuda |-> None, rank_env |-> None,
     coord_env |-> FALSE, started |-> FALSE, alive |-> TRUE,
     reply |-> None, failed |-> {}, runs |-> 0]

\* what tells the calls apart: the method, and for update_env_vars the
\* variables it carries
Tag(call) == IF call.op = "update_env_vars" THEN call.env ELSE call.op

\* [handle.method.remote(...) for handle in ws], to be collected by ray.get
\* or map_blocking: the call joins each actor's queue, and the driver holds
\* the new futures instead of those of the batch before; the future of a
\* call to an actor that was killed holds an error
Enqueue(as, ws, call) ==
    [a \in 1..Len(as) |->
        IF a \notin ws THEN as[a]
        ELSE IF as[a].alive
        THEN [as[a] EXCEPT !.queue = Append(@, call), !.reply = None,
                           !.failed = @ \ {Tag(call)}]
        ELSE [as[a] EXCEPT !.reply = None, !.failed = @ \cup {Tag(call)}]]

\* the answers the workers of one group have given to the batch in flight
Answered(as, pg) == {a \in 1..Len(as) : as[a].pg = pg /\ as[a].reply # None}

\* the values in the order in which the workers answered
RayGetAsCompleted(as, ws) ==
    [k \in 1..Len(ws) |->
        Val(as[CHOOSE a \in Range(ws) : Val(as[a].reply).at = k].reply).val]

\* ray.get(futures): the values of the futures in the order of the list,
\* whatever the order in which the workers answered
RayGet(as, ws) == [k \in 1..Len(ws) |-> Val(as[ws[k]].reply).val]

\* ray.get(futures) returns: the actors of ws have answered every call
RayGetDone(as, ws) == \A a \in ws : as[a].queue = <<>>

\* map_blocking(fn, collection) returns: it blocks until every worker of
\* the collection has responded
MapBlockingDone(as, ws) == \A a \in ws : as[a].queue = <<>>

\* what map_blocking(fn, collection) returns: ray.get of the futures
\* [fn(w) for w in collection]
MapBlocking(as, ws) == RayGet(as, ws)

\* the steps of start and create_workers that dispatch remote calls, and
\* whether the dispatch is followed by ray.get / map_blocking
AwaitsAllButBroadcast(step) ==
    step \in {"gpu_ids", "cuda_env", "node_hostname", "hostname",
              "start_executable"}

Awaits(step) ==
    step \in {"gpu_ids", "cuda_env", "node_hostname", "hostname",
              "coordinator_env", "start_executable"}

\* the workers of the bundle create_workers is at
CurrNodeWorkers ==
    {a \in 1..Len(actors) :
        actors[a].pg = pg_local /\ actors[a].bundle = bundle_index}

\* self.workers of the strategy
StrategyWorkers == Val(Val(strategy).workers)

\* where the driver waits in ray.get or map_blocking, and for which calls
Waiting ==
    [gpu_wait |-> "get_gpu_ids", cuda_wait |-> "CUDA_VISIBLE_DEVICES",
     node_wait |-> "hostname", hostname_wait |-> "hostname",
     broadcast_wait |-> "coordinator", exec_wait |-> "start_executable",
     execute_wait |-> "execute"]

\* the workers whose futures the driver waits for
BatchOf(step) ==
    IF step \in {"gpu_wait", "cuda_wait"} THEN CurrNodeWorkers
    ELSE IF step = "node_wait" THEN Range(StrategyWorkers)
    ELSE Range(workers)

\* a future of the batch the driver waits for holds an error
BatchFailed ==
    /\ pc \in DOMAIN Waiting
    /\ \E a \in BatchOf(pc) : Waiting[pc] \in actors[a].failed

\* One round of the loop over the bundles: the workers of bundle
\* bundle_index are created, with get_gpu_ids dispatched to each when
\* use_gpu is set (Spread only)
SpawnBundle ==
    /\ pc = "spawn"
    /\ bundle_index < NumBundles(Val(strategy))
    /\ LET st == Val(strategy)
           n == WorkersPerBundle(st)
           asks == st.kind = "ColocatedStrategy" /\ st.use_gpu
           calls == IF asks THEN <<Call("get_gpu_ids", "", <<>>)>> ELSE <<>>
       IN \E ids \in [0..(n - 1) -> UNION {GpuIdChoices(st, i) : i \in 0..(n - 1)}] :
            /\ \A i \in 0..(n - 1) : ids[i] \in GpuIdChoices(st, i)
            /\ actors' = actors \o
                  [k \in 1..n |->
                      NewActor(pg_local, bundle_index,
                               SpawnRank(st, bundle_index, k - 1),
                               groups[pg_local].hosts[bundle_index + 1],
                               ids[k - 1], calls)]
            /\ strategy' = Some([st EXCEPT !.workers =
                  Some(Val(@) \o [k \in 1..n |-> Len(actors) + k])])
            /\ IF asks /\ n > 0
               THEN pc' = "gpu_wait" /\ UNCHANGED bundle_index
               ELSE pc' = "spawn" /\ bundle_index' = bundle_index + 1
    /\ UNCHANGED <<coordVars, ctorVars, workers, error, last_call, start_budget,
                   pg_local, node_workers, result, wait_timer, sched, groups>>

\* sum(ray.get(gpu_id_futures), []): the lists of the workers of ws, in
\* worker order
RECURSIVE ConcatIds(_, _, _)
ConcatIds(as, a, ws) ==
    IF a > Len(as) THEN <<>>
    ELSE (IF a \in ws THEN as[a].gpu_ids ELSE <<>>) \o ConcatIds(as, a + 1, ws)

\* a device check that only counts the ids
DevicesCounted(gpu_ids, num_workers_per_host) ==
    Len(gpu_ids) = num_workers_per_host

\* assert len(gpu_ids) == len(set(gpu_ids)) == self.num_workers_per_host
DevicesUnique(gpu_ids, num_workers_per_host) ==
    /\ Len(gpu_ids) = Cardinality(Range(gpu_ids))
    /\ Cardinality(Range(gpu_ids)) = num_workers_per_host

\* ray.get(gpu_id_futures) has returned: the ids are checked and, when the
\* assert holds, CUDA_VISIBLE_DEVICES = all_ids is sent to every worker of
\* the bundle
GpuCheck ==
    /\ pc = "gpu_wait"
    /\ ~BatchFailed
    /\ Awaits("gpu_ids") => RayGetDone(actors, CurrNodeWorkers)
    /\ LET gpu_ids == ConcatIds(actors, 1, CurrNodeWorkers) IN
        IF DevicesUnique(gpu_ids, Val(Val(strategy).num_workers_per_host))
        THEN /\ actors' = Enqueue(actors, CurrNodeWorkers,
                    Call("update_env_vars", "CUDA_VISIBLE_DEVICES", gpu_ids))
             /\ pc' = "cuda_wait"
             /\ UNCHANGED <<error, last_call>>
        ELSE /\ error' = Some(Raised("AssertionError"))
             /\ last_call' = "start"
             /\ pc' = "idle"
             /\ UNCHANGED actors
    /\ UNCHANGED <<coordVars, ctorVars, strategy, workers, start_budget,
                   pg_local, bundle_index, node_workers, result, wait_timer, sched,
                   groups>>

\* ray.get(futures) of the CUDA_VISIBLE_DEVICES push has returned: on to the
\* next bundle
CudaConfirmed ==
    /\ pc = "cuda_wait"
    /\ ~BatchFailed
    /\ Awaits("cuda_env") => RayGetDone(actors, CurrNodeWorkers)
    /\ bundle_index' = bundle_index + 1
    /\ pc' = "spawn"
    /\ UNCHANGED <<coordVars, ctorVars, strategy, workers, error, last_call,
                   start_budget, pg_local, node_workers, result, wait_timer,
                   clusterVars>>

\* the loop is over; get_node_workers asks every worker for its hostname
NodeWorkersDispatch ==
    /\ pc = "spawn"
    /\ bundle_index = NumBundles(Val(strategy))
    /\ actors' = Enqueue(actors, Range(StrategyWorkers),
                         Call("hostname", "", <<>>))
    /\ pc' = "node_wait"
    /\ UNCHANGED <<coordVars, ctorVars, strategy, workers, error, last_call,
                   start_budget, pg_local, bundle_index, node_workers, result,
                   wait_timer, sched, groups>>

\* host_worker_map[hostname] = worker over zip(hostnames, workers), then
\* list(host_worker_map.values()): per host, in first-seen order, the last
\* worker that reported it
RECURSIVE HostWorkerMap(_, _, _, _)
HostWorkerMap(hostnames, ws, k, map) ==
    IF k > Len(ws) \/ k > Len(hostnames) THEN map
    ELSE LET h == hostnames[k]
             i == HostIndex(map, h)
         IN HostWorkerMap(hostnames, ws, k + 1,
                IF i = 0 THEN Append(map, [host |-> h, worker |-> ws[k]])
                ELSE [map EXCEPT ![i].worker = ws[k]])

\* a get_node_workers that hands back every worker
get_node_workers_all(hostnames, ws) == ws

\* get_node_workers(workers), with hostnames the result of its map_blocking
get_node_workers(hostnames, ws) ==
    LET map == HostWorkerMap(hostnames, ws, 1, <<>>) IN
    [i \in 1..Len(map) |-> map[i].worker]

\* get_node_workers returns, create_workers returns (self.workers,
\* node_workers) to start, and start asks every worker for its hostname
NodeWorkersCollect ==
    /\ pc = "node_wait"
    /\ ~BatchFailed
    /\ Awaits("node_hostname") => MapBlockingDone(actors, Range(StrategyWorkers))
    /\ node_workers' = get_node_workers(MapBlocking(actors, StrategyWorkers),
                                        StrategyWorkers)
    /\ workers' = StrategyWorkers
    /\ actors' = Enqueue(actors, Range(StrategyWorkers),
                         Call("hostname", "", <<>>))
    /\ pc' = "hostname_wait"
    /\ UNCHANGED <<coordVars, ctorVars, strategy, error, last_call, start_budget,
                   pg_local, bundle_index, result, wait_timer, sched, groups>>

\* a loop that registers the workers from the last of the list to the first
RECURSIVE RegisterEachReversed(_, _, _)
RegisterEachReversed(hostnames, k, hbr) ==
    IF k > Len(hostnames) THEN hbr
    ELSE RegisterEachReversed(hostnames, k + 1,
             register(hbr, hostnames[Len(hostnames) + 1 - k],
                      Len(hostnames) - k))

\* for rank, hostname in enumerate(hostnames): register(hostname, rank)
RECURSIVE RegisterEach(_, _, _)
RegisterEach(hostnames, k, hbr) ==
    IF k > Len(hostnames) THEN hbr
    ELSE RegisterEach(hostnames, k + 1, register(hbr, hostnames[k], k - 1))

\* a push that sends the record of rank k to the worker after workers[k]
PushRankInfoToNext(as, ws, info) ==
    [a \in 1..Len(as) |->
        IF \E k \in 1..Len(ws) : ws[k] = a /\ ((k % Len(ws)) \in DOMAIN info)
        THEN LET k == CHOOSE k \in 1..Len(ws) : ws[k] = a IN
             [as[a] EXCEPT !.queue =
                 Append(@, Call("update_env_vars", "rank", info[k % Len(ws)]))]
        ELSE as[a]]

\* for rank, env in all_info.items():
\*     indexed_runners[rank].update_env_vars.remote(env)
PushRankInfo(as, ws, info) ==
    [a \in 1..Len(as) |->
        IF \E k \in 1..Len(ws) : ws[k] = a /\ (k - 1) \in DOMAIN info
        THEN LET k == CHOOSE k \in 1..Len(ws) : ws[k] = a IN
             [as[a] EXCEPT !.queue =
                 Append(@, Call("update_env_vars", "rank", info[k - 1]))]
        ELSE as[a]]

\* the hostnames are in: every worker is registered in list order and
\* finalize_registration is called
RegisterAll ==
    /\ pc = "hostname_wait"
    /\ ~BatchFailed
    /\ Awaits("hostname") => MapBlockingDone(actors, Range(workers))
    /\ LET hostnames == MapBlocking(actors, workers)
           r == finalize_registration(
                    RegisterEach(hostnames, 1, hostnames_by_rank))
       IN /\ hostnames_by_rank' = r.self
          /\ rank_to_info' = r.ret
          /\ finalize_calls' = 1
    /\ pc' = "registered"
    /\ UNCHANGED <<rendezvous, ctorVars, strategy, workers, error, last_call, start_budget,
                   pg_local, bundle_index, node_workers, result, wait_timer,
                   clusterVars>>

\* each rank record is sent to its worker without waiting for it; then
\* establish_rendezvous, extra_env_vars and the NICs are merged into
\* coordinator_envs, which is sent to every worker. The driver does not
\* block between the two dispatches
BroadcastEnv ==
    /\ pc = "registered"
    /\ rendezvous' = establish_rendezvous(hostnames_by_rank)
    /\ actors' = Enqueue(PushRankInfo(actors, workers, rank_to_info),
                         Range(workers),
                         Call("update_env_vars", "coordinator", <<>>))
    /\ pc' = "broadcast_wait"
    /\ UNCHANGED <<hostnames_by_rank, rank_to_info, finalize_calls, ctorVars, strategy, workers, error, last_call,
                   start_budget, pg_local, bundle_index, node_workers, result,
                   wait_timer, sched, groups>>

\* _start_executables: start_executable is sent to every worker
StartExecutables ==
    /\ pc = "broadcast_wait"
    /\ ~BatchFailed
    /\ Awaits("coordinator_env") => MapBlockingDone(actors, Range(workers))
    /\ actors' = Enqueue(actors, Range(workers),
                         Call("start_executable", "", <<>>))
    /\ pc' = "exec_wait"
    /\ UNCHANGED <<coordVars, ctorVars, strategy, workers, error, last_call,
                   start_budget, pg_local, bundle_index, node_workers, result,
                   wait_timer, sched, groups>>

\* map_blocking(_start_exec, self.workers) returns, and start returns
StartReturns ==
    /\ pc = "exec_wait"
    /\ ~BatchFailed
    /\ Awaits("start_executable") => MapBlockingDone(actors, Range(workers))
    /\ pc' = "idle"
    /\ error' = None
    /\ last_call' = "start"
    /\ UNCHANGED <<coordVars, ctorVars, strategy, workers, start_budget,
                   pg_local, bundle_index, node_workers, result, wait_timer,
                   clusterVars>>

\* a worker actor runs the call at the head of its queue: update_env_vars
\* applies the variables, start_executable instantiates the executable,
\* hostname answers the host identity (at: the position of the answer among
\* the answers of the batch), execute runs fn and answers its result, which
\* is the worker's own, get_gpu_ids only answers
WorkerStep ==
    \E a \in 1..Len(actors) :
        /\ actors[a].alive
        /\ actors[a].queue # <<>>
        /\ LET call == Head(actors[a].queue)
               rest == [actors[a] EXCEPT !.queue = Tail(@)]
               at == Cardinality(Answered(actors, actors[a].pg)) + 1
           IN actors' = [actors EXCEPT ![a] =
                IF call.op = "start_executable"
                THEN [rest EXCEPT !.started = TRUE]
                ELSE IF call.op = "hostname"
                THEN [rest EXCEPT !.reply = Some([val |-> rest.host, at |-> at])]
                ELSE IF call.op = "execute"
                THEN [rest EXCEPT !.reply = Some([val |-> a, at |-> at]),
                                  !.runs = @ + 1]
                ELSE IF call.op # "update_env_vars" THEN rest
                ELSE IF call.env = "CUDA_VISIBLE_DEVICES"
                THEN [rest EXCEPT !.cuda = Some(call.val)]
                ELSE IF call.env = "rank"
                THEN [rest EXCEPT !.rank_env = Some(call.val)]
                ELSE [rest EXCEPT !.coord_env = TRUE]]
        /\ UNCHANGED <<coordVars, ctorVars, strategy, workers, driverVars,
                       sched, groups>>

\* ray.util.remove_placement_group(pg): the reservation is released and the
\* actors on the group are killed
RemoveGroup(gs, id) ==
    [gs EXCEPT ![id].state = "removed", ![id].removals = @ + 1]

KillActors(as, id) ==
    [a \in 1..Len(as) |->
        IF as[a].pg = id
        THEN [as[a] EXCEPT !.alive = FALSE, !.queue = <<>>, !.reply = None]
        ELSE as[a]]

\* a BaseStrategy.shutdown that keeps self.placement_group
strategy_shutdown_keeping(st) == [st EXCEPT !.workers = Some(<<>>)]

\* BaseStrategy.shutdown, after the group is removed: self.workers = [] and
\* self.placement_group = None
strategy_shutdown(st) ==
    [st EXCEPT !.workers = Some(<<>>), !.placement_group = None]

\* RayExecutor.shutdown: `del worker` unbinds the loop variable only; with a
\* strategy, BaseStrategy.shutdown removes self.placement_group when it is
\* set and resets the strategy's workers and placement_group
Shutdown ==
    /\ ctor = "ok"
    /\ pc = "idle"
    /\ IF strategy = None
       THEN UNCHANGED <<strategy, groups, actors>>
       ELSE /\ IF Val(strategy).placement_group # None
               THEN /\ groups' = RemoveGroup(groups,
                                     Val(Val(strategy).placement_group))
                    /\ actors' = KillActors(actors,
                                     Val(Val(strategy).placement_group))
               ELSE UNCHANGED <<groups, actors>>
            /\ strategy' = Some(strategy_shutdown(Val(strategy)))
    /\ last_call' = "shutdown"
    /\ UNCHANGED <<coordVars, ctorVars, workers, pc, error, start_budget,
                   pg_local, bundle_index, node_workers, result, wait_timer, sched>>

(***************************************************************************)
(* start and shutdown on a cluster                                         *)
(***************************************************************************)
NextStart ==
    \/ Construct
    \/ StartCreateStrategy
    \/ RequestPlacementGroup
    \/ SchedulerPlace
    \/ TimerExpires
    \/ PgWaitReturns
    \/ SpawnBundle
    \/ GpuCheck
    \/ CudaConfirmed
    \/ NodeWorkersDispatch
    \/ NodeWorkersCollect
    \/ RegisterAll
    \/ BroadcastEnv
    \/ StartExecutables
    \/ StartReturns
    \/ WorkerStep
    \/ Shutdown

\* any strategy, on a cluster that isolates the devices of co-located
\* workers and reports one of two host identities per bundle
InitStart ==
    /\ NewCoordinator
    /\ args \in {Some(a) : a \in StartArgs}
    /\ ctor = "new"
    /\ executor = None
    /\ strategy = None
    /\ workers = <<>>
    /\ IdleDriver
    /\ \E c \in {LargeCluster, EmptyCluster} :
          IdleCluster([capacity |-> c, hosts |-> {"A", "B"}, isolates |-> TRUE,
                       faulty |-> FALSE])

SpecStart == InitStart /\ [][NextStart]_vars

\* the Spread strategy with use_gpu, on a cluster whose scheduler may hand
\* any device ids to a worker
InitGpu ==
    /\ NewCoordinator
    /\ args \in {Some(a) : a \in {x \in StartArgs : x.num_hosts # None /\ x.use_gpu}}
    /\ ctor = "new"
    /\ executor = None
    /\ strategy = None
    /\ workers = <<>>
    /\ IdleDriver
    /\ IdleCluster([capacity |-> LargeCluster, hosts |-> {"A"},
                    isolates |-> FALSE, faulty |-> FALSE])

SpecGpu == InitGpu /\ [][NextStart]_vars

\* bound on gpus_per_worker
MaxGpusPerWorker == 2

\* the Spread constructor calls with use_gpu and gpus_per_worker left out
\* or given
GpuArgs ==
    {[a EXCEPT !.gpus_per_worker = g] :
        a \in {x \in StartArgs : x.num_hosts # None /\ x.use_gpu},
        g \in {None} \cup {Some(n) : n \in 1..MaxGpusPerWorker}}

\* a cluster with the devices of any one group of GpuArgs
GpuCluster == [CPU |-> MaxWorkers, GPU |-> MaxGpusPerWorker * MaxWorkers]

\* the Spread strategy with use_gpu and any gpus_per_worker, on a cluster
\* whose scheduler hands every worker its own gpus_per_worker devices
InitIsolated ==
    /\ NewCoordinator
    /\ args \in {Some(a) : a \in GpuArgs}
    /\ ctor = "new"
    /\ executor = None
    /\ strategy = None
    /\ workers = <<>>
    /\ IdleDriver
    /\ IdleCluster([capacity |-> GpuCluster, hosts |-> {"A", "B"},
                    isolates |-> TRUE, faulty |-> FALSE])

SpecIsolated == InitIsolated /\ [][NextStart]_vars

(***************************************************************************)
(* execute, failing remote calls, and several calls on one RayExecutor     *)
(***************************************************************************)
\* execute(fn) up to ray.get: worker.execute.remote(fn) for every worker of
\* self.workers
Execute ==
    /\ ctor = "ok"
    /\ pc = "idle"
    /\ actors' = Enqueue([a \in 1..Len(actors) |->
                              [actors[a] EXCEPT !.runs = 0]],
                         Range(workers), Call("execute", "", <<>>))
    /\ pc' = "execute_wait"
    /\ result' = None
    /\ error' = None
    /\ UNCHANGED <<coordVars, ctorVars, strategy, workers, last_call,
                   start_budget, pg_local, bundle_index, node_workers,
                   wait_timer, sched, groups>>

\* ray.get returns the results and execute returns them
ExecuteReturns ==
    /\ pc = "execute_wait"
    /\ ~BatchFailed
    /\ RayGetDone(actors, Range(workers))
    /\ result' = Some(RayGet(actors, workers))
    /\ pc' = "idle"
    /\ last_call' = "execute"
    /\ UNCHANGED <<coordVars, ctorVars, strategy, workers, error, start_budget,
                   pg_local, bundle_index, node_workers, wait_timer,
                   clusterVars>>

\* the call at the head of a worker's queue raises: it has no effect and
\* its future holds the error
WorkerFails ==
    \E a \in 1..Len(actors) :
        /\ sched.faulty
        /\ actors[a].alive
        /\ actors[a].queue # <<>>
        /\ actors' = [actors EXCEPT
                         ![a].queue = Tail(@),
                         ![a].failed = @ \cup {Tag(Head(actors[a].queue))}]
        /\ UNCHANGED <<coordVars, ctorVars, strategy, workers, driverVars,
                       sched, groups>>

\* ray.get or map_blocking raises the error of a future of its batch, and
\* the error leaves start or execute
RemoteCallFails ==
    /\ pc \in DOMAIN Waiting
    /\ RayGetDone(actors, BatchOf(pc))
    /\ BatchFailed
    /\ error' = Some(Raised("RayTaskError"))
    /\ last_call' = IF pc = "execute_wait" THEN "execute" ELSE "start"
    /\ pc' = "idle"
    /\ UNCHANGED <<coordVars, ctorVars, strategy, workers, start_budget,
                   pg_local, bundle_index, node_workers, result, wait_timer,
                   clusterVars>>

\* establish_rendezvous raises: the rendezvous server does not start; the
\* rank records were already sent
RendezvousFails ==
    /\ pc = "registered"
    /\ sched.faulty
    /\ actors' = PushRankInfo(actors, workers, rank_to_info)
    /\ error' = Some(Raised("RendezvousError"))
    /\ last_call' = "start"
    /\ pc' = "idle"
    /\ UNCHANGED <<coordVars, ctorVars, strategy, workers, start_budget,
                   pg_local, bundle_index, node_workers, result, wait_timer,
                   sched, groups>>

NextLifecycle ==
    \/ NextStart
    \/ Execute
    \/ ExecuteReturns
    \/ RemoteCallFails

NextFail ==
    \/ NextLifecycle
    \/ WorkerFails
    \/ RendezvousFails

\* the constructor calls of start's scenarios with at most two workers
LifecycleArgs ==
    {a \in StartArgs :
        /\ a.num_workers # None => Val(a.num_workers) <= 2
        /\ a.num_hosts # None =>
              Val(a.num_hosts) * Val(a.num_workers_per_host) <= 2}

\* a caller that calls start at most twice, and execute and shutdown at any
\* time between calls
InitLifecycle ==
    /\ NewCoordinator
    /\ args \in {Some(a) : a \in LifecycleArgs}
    /\ ctor = "new"
    /\ executor = None
    /\ strategy = None
    /\ workers = <<>>
    /\ pc = "idle"
    /\ error = None
    /\ last_call = "none"
    /\ start_budget = 2
    /\ pg_local = 0
    /\ bundle_index = 0
    /\ node_workers = <<>>
    /\ result = None
    /\ wait_timer = "off"
    /\ IdleCluster([capacity |-> LargeCluster, hosts |-> {"A", "B"},
                    isolates |-> TRUE, faulty |-> FALSE])

SpecLifecycle == InitLifecycle /\ [][NextLifecycle]_vars

\* a caller that calls start once, and execute and shutdown at any time, on
\* a cluster where a remote call or the rendezvous server may fail and the
\* scheduler may or may not isolate the devices
InitFail ==
    /\ NewCoordinator
    /\ args \in {Some(a) : a \in LifecycleArgs}
    /\ ctor = "new"
    /\ executor = None
    /\ strategy = None
    /\ workers = <<>>
    /\ IdleDriver
    /\ \E i \in BOOLEAN :
          IdleCluster([capacity |-> LargeCluster, hosts |-> {"A", "B"},
                       isolates |-> i, faulty |-> TRUE])

SpecFail == InitFail /\ [][NextFail]_vars

(***************************************************************************)
(* Properties of create_workers, start and shutdown                        *)
(***************************************************************************)
\* C8: when bundle acquisition times out inside create_workers, start raises
\* the error with no worker spawned, and a shutdown that follows releases the
\* group that was requested: no group of the run stays with the scheduler.
C8_TimeoutReleased ==
    TimedOut =>
        /\ pc = "idle"
        /\ actors = <<>>
        /\ last_call = "shutdown" =>
              \A id \in 1..Len(groups) : groups[id].state = "removed"

\* the workers spawned on bundle b (from 0) of the group being set up
BundleWorkers(b) ==
    {a \in 1..Len(actors) : actors[a].pg = pg_local /\ actors[a].bundle = b}

\* the device ids collected on bundle b, in worker order
BundleIds(b) == ConcatIds(actors, 1, BundleWorkers(b))

\* two of the collected ids are the same
HasDuplicate(ids) ==
    \E i, j \in 1..Len(ids) : i < j /\ ids[i] = ids[j]

\* a CUDA_VISIBLE_DEVICES push is waiting in worker a's queue
CudaQueued(a) ==
    \E k \in 1..Len(actors[a].queue) :
        actors[a].queue[k].env = "CUDA_VISIBLE_DEVICES"

\* create_workers has raised the AssertionError of the device check
DeviceCheckFailed == error # None /\ Val(error).type = "AssertionError"

\* the Spread strategy with GPUs holds the group it spawns workers on
SpreadWithGpus ==
    /\ strategy # None
    /\ Val(strategy).kind = "ColocatedStrategy"
    /\ Val(strategy).use_gpu
    /\ Val(strategy).placement_group = Some(pg_local)

\* C9: in the Spread strategy with GPUs, a bundle whose collected device ids
\* hold a duplicate or are not num_workers_per_host many makes create_workers
\* fail with the AssertionError, no CUDA_VISIBLE_DEVICES being sent to its
\* workers; otherwise every worker of the bundle, and no other worker, is
\* sent the list of all ids collected on the bundle, and all of them have
\* applied it before the next bundle is processed.
C9_DeviceCheck ==
    SpreadWithGpus =>
        \A b \in 0..(NumBundles(Val(strategy)) - 1) :
            LET ws == BundleWorkers(b)
                ids == BundleIds(b)
                bad == HasDuplicate(ids)
                         \/ Len(ids) # Val(Val(strategy).num_workers_per_host)
                collecting == pc = "gpu_wait" /\ bundle_index = b
            IN ws # {} =>
                /\ bad =>
                      /\ \A a \in ws : actors[a].cuda = None /\ ~CudaQueued(a)
                      /\ collecting \/ (pc = "idle" /\ DeviceCheckFailed
                                           /\ bundle_index = b)
                /\ (~bad /\ ~collecting) =>
                      /\ \A a \in ws :
                            \/ actors[a].cuda = Some(ids)
                            \/ /\ actors[a].cuda = None
                               /\ Len(actors[a].queue) = 1
                               /\ actors[a].queue[1] =
                                    Call("update_env_vars",
                                         "CUDA_VISIBLE_DEVICES", ids)
                      /\ bundle_index > b =>
                            \A a \in ws : actors[a].cuda = Some(ids)

\* the first bundle passed the check and both its workers hold its ids; the
\* second one reported the same device twice and failed the check
C9_Witness ==
    /\ SpreadWithGpus
    /\ DeviceCheckFailed
    /\ bundle_index = 1
    /\ Cardinality(BundleWorkers(0)) = 2
    /\ \A a \in BundleWorkers(0) : actors[a].cuda = Some(<<1, 0>>)
    /\ BundleIds(1) = <<0, 0>>
    /\ \A a \in BundleWorkers(1) : actors[a].cuda = None

\* start_executable has been sent to worker a
Instructed(a) ==
    \/ actors[a].started
    \/ \E k \in 1..Len(actors[a].queue) :
          actors[a].queue[k].op = "start_executable"

\* C10: no worker of the worker list is sent start_executable before every
\* worker of the list has applied the group-wide environment.
C10_EnvBeforeExecutable ==
    (\E a \in Range(workers) : Instructed(a)) =>
        \A w \in Range(workers) : actors[w].coord_env

\* start_executable is out to four workers on two hosts and only some of
\* them have run it
C10_Witness ==
    /\ pc = "exec_wait"
    /\ Len(workers) = 4
    /\ Len(hostnames_by_rank) = 2
    /\ \E a, b \in Range(workers) : actors[a].started /\ ~actors[b].started

(***************************************************************************)
(* Properties of the registration in start                                 *)
(***************************************************************************)
\* start has registered its workers with the coordinator of this call
Registered == finalize_calls = 1 /\ workers # <<>>

\* the entry of the ordered dict that holds world rank r, 0 when none does
HostOfRank(hbr, r) ==
    IF \E i \in 1..Len(hbr) : r \in Range(hbr[i].ranks)
    THEN CHOOSE i \in 1..Len(hbr) : r \in Range(hbr[i].ranks)
    ELSE 0

\* C11: whatever the order in which the workers answered the hostname
\* query of start, the coordinator holds rank k - 1 under the host of
\* workers[k], once for each worker, and was given the ranks in increasing
\* order: every host's list is increasing and the hosts are ordered by their
\* first worker in the list.
C11_RegistrationOrder ==
    Registered =>
        /\ world_size(hostnames_by_rank) = Len(workers)
        /\ RegisteredRanks(hostnames_by_rank) = 0..(Len(workers) - 1)
        /\ \A k \in 1..Len(workers) :
              LET i == HostOfRank(hostnames_by_rank, k - 1) IN
              /\ i # 0
              /\ hostnames_by_rank[i].host = actors[workers[k]].host
        /\ \A i \in 1..Len(hostnames_by_rank) :
              \A p, q \in 1..Len(hostnames_by_rank[i].ranks) :
                 p < q => hostnames_by_rank[i].ranks[p]
                            < hostnames_by_rank[i].ranks[q]
        /\ \A i, j \in 1..Len(hostnames_by_rank) :
              i < j => hostnames_by_rank[i].ranks[1]
                         < hostnames_by_rank[j].ranks[1]

\* three workers on two hosts are registered, and the first worker of the
\* list was the last to answer the hostname query
C11_Witness ==
    /\ Registered
    /\ pc = "registered"
    /\ Len(workers) = 3
    /\ actors[workers[1]].host # actors[workers[2]].host
    /\ actors[workers[1]].reply # None
    /\ Val(actors[workers[1]].reply).at = 3
    /\ actors[workers[3]].reply # None
    /\ Val(actors[workers[3]].reply).at = 1

\* create_workers has returned its two results to start
WorkersCreated == workers # <<>>

\* the host identities the workers of the list reported
ObservedHosts == {actors[w].host : w \in Range(workers)}

\* C12: the second result of create_workers, for either strategy, holds one
\* handle of the worker list for each host identity the workers reported,
\* and no two of its handles are on the same host.
C12_OnePerHost ==
    WorkersCreated =>
        /\ Len(node_workers) = Cardinality(ObservedHosts)
        /\ Range(node_workers) \subseteq Range(workers)
        /\ \A i, j \in 1..Len(node_workers) :
              i # j => actors[node_workers[i]].host # actors[node_workers[j]].host

\* Pack with three workers whose bundles are on hosts A, B and A again, and
\* Spread with two hosts of two workers: two handles are returned
C12_Witness ==
    /\ WorkersCreated
    /\ Len(node_workers) = 2
    /\ \/ /\ Val(strategy).kind = "PackStrategy"
          /\ Len(workers) = 3
          /\ actors[workers[1]].host = actors[workers[3]].host
          /\ actors[workers[1]].host # actors[workers[2]].host
       \/ /\ Val(strategy).kind = "ColocatedStrategy"
          /\ Len(workers) = 4
          /\ actors[workers[1]].host = actors[workers[2]].host
          /\ actors[workers[1]].host # actors[workers[3]].host

(***************************************************************************)
(* Properties of shutdown, execute and repeated calls                      *)
(***************************************************************************)
\* a shutdown call that does not follow another shutdown call
FirstShutdown ==
    pc = "idle" /\ pc' = "idle" /\ last_call # "shutdown" /\ last_call' = "shutdown"

\* a step taken after a shutdown call and before any other call: a further
\* shutdown call, or a step of the cluster
AfterShutdown ==
    pc = "idle" /\ pc' = "idle" /\ last_call = "shutdown" /\ last_call' = "shutdown"

\* how often each group was removed, and which actors are alive
Removals(gs) == [g \in 1..Len(gs) |-> gs[g].removals]

Alive(as) == [a \in 1..Len(as) |-> as[a].alive]

\* C13: a shutdown call raises no error; on a RayExecutor that was never
\* started it changes nothing at the scheduler; the group the strategy
\* holds is removed by the first call after the start, no group is ever
\* removed twice, and a shutdown that follows a shutdown removes no group,
\* kills no actor and leaves the strategy and the worker list as they are.
C13_ShutdownIdempotent ==
    [][/\ FirstShutdown =>
            /\ error' = error
            /\ strategy = None => (groups' = groups /\ actors' = actors)
            /\ (strategy # None /\ Val(strategy).placement_group # None) =>
                  LET g == Val(Val(strategy).placement_group) IN
                  /\ groups'[g].state = "removed"
                  /\ groups'[g].removals = 1
       /\ AfterShutdown =>
            /\ error' = error
            /\ strategy' = strategy
            /\ workers' = workers
            /\ Removals(groups') = Removals(groups)
            /\ Alive(actors') = Alive(actors)
       /\ \A g \in 1..Len(groups) : groups'[g].removals <= 1]_vars

\* start and shutdown were called twice in turn: each of the two groups
\* was removed once, and the strategy holds none
C13_Witness ==
    /\ last_call = "shutdown"
    /\ Len(groups) = 2
    /\ \A g \in 1..2 : groups[g].acquired /\ groups[g].removals = 1
    /\ Val(strategy).placement_group = None
    /\ Len(workers) = 2

\* C14: after shutdown has returned self.workers is empty, and no execute
\* call is dispatched to a worker of a run that was shut down.
C14_NoHandlesAfterShutdown ==
    /\ (last_call = "shutdown" /\ pc = "idle") => workers = <<>>
    /\ \A a \in 1..Len(actors) :
          ~actors[a].alive => "execute" \notin actors[a].failed

\* C15: when a shutdown call returns, every group that a start call of the
\* RayExecutor acquired has been removed from the scheduler.
C15_NoGroupLeft ==
    [][FirstShutdown =>
          \A g \in 1..Len(groups) :
             groups'[g].acquired => groups'[g].state = "removed"]_vars

\* an execute call has returned or raised, and no other call followed
Executed == pc = "idle" /\ last_call = "execute"

\* C16: execute(fn) runs fn once on every worker of the list and returns
\* the workers' results in list order, whatever the order in which they
\* finished; when the call fails on some worker, execute raises the error
\* and returns no list.
C16_ExecuteResults ==
    /\ \A a \in 1..Len(actors) : actors[a].runs <= 1
    /\ Executed =>
          IF \E w \in Range(workers) : "execute" \in actors[w].failed
          THEN /\ error # None
               /\ Val(error).type = "RayTaskError"
               /\ result = None
          ELSE /\ error = None
               /\ result = Some([k \in 1..Len(workers) |-> workers[k]])
               /\ \A w \in Range(workers) : actors[w].runs = 1

\* execute returned the results of two workers, the second of which
\* finished first
C16_Witness ==
    /\ Executed
    /\ error = None
    /\ Len(workers) = 2
    /\ result = Some(workers)
    /\ Val(actors[workers[1]].reply).at = 2
    /\ Val(actors[workers[2]].reply).at = 1

\* the workers of the list that were spawned on bundle b (from 0)
OnBundle(b) == {k \in 1..Len(workers) : actors[workers[k]].bundle = b}

\* C17: the list create_workers returns has num_workers handles, the one
\* at index k spawned with world_rank k on the group of the strategy; in
\* Spread bundle b holds the num_workers_per_host workers of ranks
\* b * num_workers_per_host + i, in Pack bundle b holds the one worker of
\* rank b; the rank a worker is registered with is its world_rank, and
\* workers[0], the target of execute_single, has world_rank 0.
C17_WorldRanks ==
    WorkersCreated =>
        LET st == Val(strategy)
            W == WorkersPerBundle(st)
        IN /\ Len(workers) = NumWorkers(st)
           /\ \A k \in 1..Len(workers) :
                 /\ actors[workers[k]].world_rank = k - 1
                 /\ actors[workers[k]].pg = pg_local
                 /\ actors[workers[k]].bundle = (k - 1) \div W
           /\ {actors[w].world_rank : w \in Range(workers)}
                 = 0..(NumWorkers(st) - 1)
           /\ \A b \in 0..(NumBundles(st) - 1) :
                 /\ Cardinality(OnBundle(b)) = W
                 /\ \A k \in OnBundle(b) :
                       \E i \in 0..(W - 1) :
                          actors[workers[k]].world_rank =
                             IF st.kind = "PackStrategy" THEN b ELSE b * W + i
           /\ actors[workers[1]].world_rank = 0
           /\ Registered =>
                 /\ RegisteredRanks(hostnames_by_rank)
                       = {actors[w].world_rank : w \in Range(workers)}
                 /\ DOMAIN rank_to_info
                       = {actors[w].world_rank : w \in Range(workers)}

\* Spread with two hosts of two workers each: the fourth worker of the
\* list has world_rank 3 on the second bundle, and is registered
C17_Witness ==
    /\ WorkersCreated
    /\ Registered
    /\ Val(strategy).kind = "ColocatedStrategy"
    /\ Val(strategy).num_hosts = Some(2)
    /\ Val(strategy).num_workers_per_host = Some(2)
    /\ Len(workers) = 4
    /\ actors[workers[4]].world_rank = 3
    /\ actors[workers[4]].bundle = 1
    /\ actors[workers[1]].host # actors[workers[4]].host

\* the rank records waiting in worker a's queue
RankCalls(a) ==
    {k \in 1..Len(actors[a].queue) : actors[a].queue[k].env = "rank"}

StartCalls ==
    {"get_gpu_ids", "CUDA_VISIBLE_DEVICES", "hostname", "rank", "coordinator"}

\* a step of start has failed: bundle acquisition, the device check, the
\* rendezvous, or one of the remote calls on some worker
StepFailed ==
    \/ /\ error # None
       /\ Val(error).type \in {"TimeoutError", "AssertionError",
                                "RendezvousError"}
    \/ \E a \in 1..Len(actors) : actors[a].failed \cap StartCalls # {}

\* C19: once a step of start has failed, start_executable is sent to no
\* worker, start does not get to the steps after the failed one, and when
\* start is over it has raised an error.
C19_FailureAborts ==
    StepFailed =>
        /\ \A a \in 1..Len(actors) : ~Instructed(a)
        /\ pc # "exec_wait"
        /\ (pc = "idle" /\ last_call = "start") => error # None

\* establish_rendezvous has been called in this start
RendezvousEstablished == rendezvous # None

\* the slots of the hosts handed to the rendezvous server, summed
RECURSIVE SumSlots(_, _)
SumSlots(hs, i) == IF i > Len(hs) THEN 0 ELSE hs[i].slots + SumSlots(hs, i + 1)

\* C20: when establish_rendezvous is called every worker that
\* create_workers returned is registered, and the number of processes it
\* hands to the rendezvous server, like the slots of the hosts it hands
\* over, is the number of those workers.
C20_RendezvousAfterRegister ==
    RendezvousEstablished =>
        /\ Registered
        /\ RegisteredRanks(hostnames_by_rank) = 0..(Len(workers) - 1)
        /\ Val(rendezvous).num_proc = Len(workers)
        /\ SumSlots(Val(rendezvous).hosts, 1) = Len(workers)
        /\ \A i \in 1..Len(hostnames_by_rank) :
              /\ Val(rendezvous).hosts[i].host = hostnames_by_rank[i].host
              /\ Val(rendezvous).hosts[i].slots
                    = Cardinality({w \in Range(workers) :
                           actors[w].host = hostnames_by_rank[i].host})

\* the rendezvous is set up for three workers on two hosts
C20_Witness ==
    /\ RendezvousEstablished
    /\ Len(workers) = 3
    /\ Val(rendezvous).num_proc = 3
    /\ Len(Val(rendezvous).hosts) = 2
    /\ Val(rendezvous).hosts[1].slots = 2


\* Spread, registered, and no two bundles share a host identity
SpreadOnDistinctHosts ==
    /\ strategy # None
    /\ Val(strategy).kind = "ColocatedStrategy"
    /\ Registered
    /\ \A j, k \in 1..Len(workers) :
          actors[workers[j]].bundle # actors[workers[k]].bundle =>
             actors[workers[j]].host # actors[workers[k]].host

\* the balanced record of world rank r with H hosts of W workers
BalancedRecord(r, H, W) ==
    [HOROVOD_LOCAL_RANK |-> r % W, HOROVOD_LOCAL_SIZE |-> W,
     HOROVOD_CROSS_RANK |-> r \div W, HOROVOD_CROSS_SIZE |-> H]

\* C21: under Spread with H hosts of W workers whose bundles report
\* pairwise distinct host identities, the record made for, sent to and
\* applied by the worker of world_rank r is LOCAL_RANK = r mod W,
\* LOCAL_SIZE = W, CROSS_RANK = r div W, CROSS_SIZE = H.
C21_SpreadBalanced ==
    SpreadOnDistinctHosts =>
        LET H == Val(Val(strategy).num_hosts)
            W == Val(Val(strategy).num_workers_per_host)
        IN \A a \in Range(workers) :
              LET r == actors[a].world_rank IN
              /\ r \in DOMAIN rank_to_info
              /\ rank_to_info[r] = BalancedRecord(r, H, W)
              /\ \A c \in RankCalls(a) :
                    actors[a].queue[c].val = BalancedRecord(r, H, W)
              /\ actors[a].rank_env # None =>
                    actors[a].rank_env = Some(BalancedRecord(r, H, W))
              /\ (pc # "registered" /\ actors[a].alive) =>
                    (RankCalls(a) # {} \/ actors[a].rank_env # None)

\* two hosts of two workers on distinct hosts: start has returned and the
\* worker of world_rank 3 runs with local rank 1 of 2 and cross rank 1 of 2,
\* the worker of world_rank 2 with local rank 0 and cross rank 1
C21_Witness ==
    /\ SpreadOnDistinctHosts
    /\ pc = "idle"
    /\ last_call = "start"
    /\ error = None
    /\ Val(strategy).num_hosts = Some(2)
    /\ Val(strategy).num_workers_per_host = Some(2)
    /\ actors[workers[4]].world_rank = 3
    /\ actors[workers[4]].started
    /\ actors[workers[4]].rank_env =
          Some([HOROVOD_LOCAL_RANK |-> 1, HOROVOD_LOCAL_SIZE |-> 2,
                HOROVOD_CROSS_RANK |-> 1, HOROVOD_CROSS_SIZE |-> 2])
    /\ actors[workers[3]].rank_env =
          Some([HOROVOD_LOCAL_RANK |-> 0, HOROVOD_LOCAL_SIZE |-> 2,
                HOROVOD_CROSS_RANK |-> 1, HOROVOD_CROSS_SIZE |-> 2])


\* every worker spawned on bundle b holds gpus_per_worker device ids, and no
\* id is held twice on the bundle
Isolated(b) ==
    /\ \A a \in BundleWorkers(b) :
          Len(actors[a].gpu_ids) = Val(Val(strategy).gpus_per_worker)
    /\ ~HasDuplicate(BundleIds(b))

\* C22: in the Spread strategy with GPUs and any gpus_per_worker >= 1, when
\* every worker of every bundle spawned so far holds gpus_per_worker device
\* ids that no co-located worker holds, create_workers has not raised the
\* AssertionError of the device check.
C22_IsolatedPasses ==
    (/\ SpreadWithGpus
     /\ Val(Val(strategy).gpus_per_worker) >= 1
     /\ \A b \in 0..(NumBundles(Val(strategy)) - 1) : Isolated(b))
        => ~DeviceCheckFailed

=============================================================================
